---------------------------- MODULE Spec2Model ----------------------------
(***************************************************************************)
(* go-sse: a Server-Sent-Events broadcast server.                          *)
(*                                                                         *)
(* Server (src/unnamed/part_001), Channel (src/README.md, lines 82-167)    *)
(* and Client (src/client.go) as a state machine.  Every goroutine of the  *)
(* program is a process of the model: the control loops (Server.dispatch), *)
(* the HTTP handlers (Server.ServeHTTP), and the callers of SendMessage,   *)
(* Start, Restart, Shutdown and CloseChannel.  A step of a process is a    *)
(* stretch of code between two points where it can wait (a mutex, a Go     *)
(* channel, a select).                                                     *)
(*                                                                         *)
(* Names: a channel name is a number in 1..NumNames, the empty string is   *)
(* 0.  A message is identified with the SendMessage call that publishes    *)
(* it, and its id is that number.  Channel objects are numbered in the     *)
(* order newChannel allocates them; 0 is "no channel" (nil).  Requests and  *)
(* calls are numbered in the order in which they begin.                    *)
(*                                                                         *)
(* Time: the program waits for time in one place, the select of            *)
(* Channel.SendMessage.  A timer expires only while its owner has a        *)
(* reason to have waited 200 ms: it is parked in that select on a full     *)
(* outbox, or it waits for the channel's read lock behind a writer that    *)
(* waits for a fan-out parked on a full outbox.  All other steps take no   *)
(* time.  timer.Reset does not drain timer.C (Go before 1.23).             *)
(***************************************************************************)
EXTENDS Naturals, Sequences, FiniteSets

\* ------------------------------------------------------------------ bounds
NumNames == 2        \* channel names in use
NumClients == 3      \* HTTP requests (one Client object each)
NumSends == 2        \* SendMessage calls
NumStarts == 2       \* Start calls
NumShutdowns == 2    \* Shutdown calls
NumRestarts == 1     \* Restart calls
NumCloses == 1       \* CloseChannel calls
MaxChans == 3        \* Channel objects ever allocated
FanClients == 2      \* requests in SpecFan, SpecClose, SpecRestart, SpecStop
LifeClients == 1     \* requests in SpecLife
LifeSends == 2       \* SendMessage calls in SpecLife
LifeNames == 1       \* channel names in SpecLife
CloseSends == 1      \* SendMessage calls in SpecClose, SpecRestart, SpecStop
SlowNames == 1       \* channel names in SpecSlow
OutboxCap == 1       \* capacity of Client.send (1024 in the source)
SignalCap == 2       \* capacity of Server.addClient / removeClient (256)

Names == 1..NumNames
Clients == 1..NumClients
Sends == 1..NumSends
Starts == 1..NumStarts
Shutdowns == 1..NumShutdowns
Restarts == 1..NumRestarts
ChanIds == 1..MaxChans
\* A control loop is named after the Start call that spawned it; loop 0 is the
\* one NewServer spawns when Options.DontStartServer is false.
Loops == 0..NumStarts
\* The goroutines that can run Server.close / Channel.Close: the control loops
\* and the Restart callers (numbered after the loops).
RestartThread(r) == NumStarts + r
Threads == 0..(NumStarts + NumRestarts)

VARIABLES
    \* Server
    isStarted,      \* Server.isStarted
    channels,       \* Server.channels: name -> channel object, 0 when absent
    chansClosed,    \* addClient, removeClient, closeChannel, shutdown are closed
    addClient,      \* Server.addClient: buffered Go channel of clients
    removeClient,   \* Server.removeClient: buffered Go channel of clients
    closeWait,      \* name -> number of CloseChannel callers parked on s.closeChannel <- name
    closeCalls,     \* CloseChannel calls made so far
    \* Channel objects
    nChans,         \* channel objects allocated so far
    chName,         \* Channel.name
    chClients,      \* Channel.clients (the keys; every value is true)
    chLast,         \* Channel.lastEventID
    \* Client objects
    cChannel,       \* Client.channel, 0 before newClient
    cLast,          \* Client.lastEventID
    send,           \* Client.send: the buffered messages
    closed,         \* Client.send has been closed
    hpc,            \* where the client's ServeHTTP handler is
    \* control loops and the goroutines running close()
    lpc,            \* where each control loop is
    kch,            \* per thread: the channel it is working on
    kcl,            \* per thread: the client it is working on
    kvis,           \* per thread: channels its range over s.channels has produced
    kmode,          \* per thread: "all" inside Server.close, "one" inside one removeChannel
    \* SendMessage calls
    ppc, pname, pchs, pch, pleft, pcur, pret,
    timerOn,        \* the call's timer is running
    timerC,         \* a value sits in the call's timer.C
    tstale,         \* that value was there when the range produced the current client
    \* Start, Shutdown, Restart calls
    spc, sret, dpc, dret, rret,
    \* the process died of a panic
    fault,
    \* history, read by the properties only
    deliv,          \* deliv[p][c]: times message p was enqueued into c's outbox
    drops,          \* drops[p]: clients the select of call p gave up on
    dropWait,       \* those given up on a full outbox, by a timer that fired at them
    dropFree,       \* those given up with free space in the outbox, by a stale timer value
    pfull,          \* some outbox was full at some moment of call p
    patt,           \* clients attached to a registered channel when call p began
    pstarted,       \* isStarted as call p found it
    ratt,           \* ratt[r]: clients attached to a registered channel when Restart r began
    rold,           \* rold[r]: channel objects registered when Restart r began
    cafter,         \* cafter[c]: a Restart had returned nil when request c began
    pubs,           \* pubs[o]: the messages lastEventID of channel o was set to, in order
    got             \* got[c]: the messages enqueued into c's outbox, in order

serverVars == <<isStarted, channels, chansClosed, addClient, removeClient, closeWait, closeCalls>>
chanVars == <<nChans, chName, chClients, chLast>>
clientVars == <<cChannel, cLast, send, closed, hpc>>
loopVars == <<lpc, kch, kcl, kvis, kmode>>
sendVars == <<ppc, pname, pchs, pch, pleft, pcur, pret, timerOn, timerC, tstale>>
callVars == <<spc, sret, dpc, dret, rret>>
sendHist == <<deliv, drops, dropWait, dropFree, pfull, patt, pstarted>>
restartHist == <<ratt, rold, cafter>>
orderHist == <<pubs, got>>
histVars == <<sendHist, restartHist, orderHist>>
vars == <<serverVars, chanVars, clientVars, loopVars, sendVars, callVars, fault, histVars>>

\* Everything but fault.
progVars == <<serverVars, chanVars, clientVars, loopVars, sendVars, callVars, histVars>>

\* A panic: the process dies where it stands, and no goroutine of it takes
\* another step (every action has the guard fault = "none").
Panic(msg) == fault' = msg /\ UNCHANGED progVars

\* ------------------------------------------------------------------ locks
\* The channel objects the registry holds.
RegisteredIn(chs) == {chs[n] : n \in Names} \ {0}
Registered == RegisteredIn(channels)

\* Server.SendMessage("") holds s.mu.RLock from before its range over
\* s.channels until after it; every writer of s.channels waits for it.
SReaders == {p \in Sends : pname[p] = 0 /\ ppc[p] \in {"publish", "rlock", "fan"}}

\* Channel.SendMessage holds c.mu.RLock over its range over c.clients.
CReaders(o) == {p \in Sends : ppc[p] = "fan" /\ pch[p] = o}

IsLoop(t) == t <= NumStarts

\* hasStarted answering true whatever the flag.
HasStartedAlways == TRUE

\* Server.hasStarted: isStarted read under s.mu.RLock.
HasStarted == isStarted

\* ------------------------------------------------------------------ Init
\* NewServer: the server as constructed, started (with control loop 0) unless
\* Options.DontStartServer.
Init ==
    /\ isStarted \in BOOLEAN
    /\ channels = [n \in Names |-> 0]
    /\ chansClosed = FALSE
    /\ addClient = <<>>
    /\ removeClient = <<>>
    /\ closeWait = [n \in Names |-> 0]
    /\ closeCalls = 0
    /\ nChans = 0
    /\ chName = [o \in ChanIds |-> 0]
    /\ chClients = [o \in ChanIds |-> {}]
    /\ chLast = [o \in ChanIds |-> 0]
    /\ cChannel = [c \in Clients |-> 0]
    /\ cLast = [c \in Clients |-> 0]
    /\ send = [c \in Clients |-> <<>>]
    /\ closed = [c \in Clients |-> FALSE]
    /\ hpc = [c \in Clients |-> "new"]
    /\ lpc = [t \in Threads |-> IF IsLoop(t)
                                 THEN IF t = 0 /\ isStarted THEN "select" ELSE "off"
                                 ELSE "idle"]
    /\ kch = [t \in Threads |-> 0]
    /\ kcl = [t \in Threads |-> 0]
    /\ kvis = [t \in Threads |-> {}]
    /\ kmode = [t \in Threads |-> "one"]
    /\ ppc = [p \in Sends |-> "idle"]
    /\ pname = [p \in Sends |-> 0]
    /\ pchs = [p \in Sends |-> {}]
    /\ pch = [p \in Sends |-> 0]
    /\ pleft = [p \in Sends |-> {}]
    /\ pcur = [p \in Sends |-> 0]
    /\ pret = [p \in Sends |-> "none"]
    /\ timerOn = [p \in Sends |-> FALSE]
    /\ timerC = [p \in Sends |-> FALSE]
    /\ tstale = [p \in Sends |-> FALSE]
    /\ spc = [s \in Starts |-> "idle"]
    /\ sret = [s \in Starts |-> "none"]
    /\ dpc = [d \in Shutdowns |-> "idle"]
    /\ dret = [d \in Shutdowns |-> "none"]
    /\ rret = [r \in Restarts |-> "none"]
    /\ fault = "none"
    /\ deliv = [p \in Sends |-> [c \in Clients |-> 0]]
    /\ drops = [p \in Sends |-> {}]
    /\ dropFree = [p \in Sends |-> {}]
    /\ dropWait = [p \in Sends |-> {}]
    /\ pfull = [p \in Sends |-> FALSE]
    /\ patt = [p \in Sends |-> {}]
    /\ pstarted = [p \in Sends |-> FALSE]
    /\ ratt = [r \in Restarts |-> {}]
    /\ rold = [r \in Restarts |-> {}]
    /\ cafter = [c \in Clients |-> FALSE]
    /\ pubs = [o \in ChanIds |-> <<>>]
    /\ got = [c \in Clients |-> <<>>]

\* ------------------------------------------------------------------ ServeHTTP
\* ServeHTTP up to its first select, for a GET on channel name n.  The client
\* is created and offered on s.addClient; the request may also be cancelled
\* before the control loop's buffer takes it.
ServeHTTP(c, n) ==
    /\ fault = "none"
    /\ hpc[c] = "new"
    /\ IF c = 1 THEN TRUE ELSE hpc[c - 1] # "new"
    /\ IF ~isStarted
       THEN /\ hpc' = [hpc EXCEPT ![c] = "err500"]
            /\ UNCHANGED <<cChannel, cLast, addClient, fault, cafter>>
       ELSE IF chansClosed
       THEN /\ fault' = "ServeHTTP: send on closed channel"
            /\ UNCHANGED <<hpc, cChannel, cLast, addClient, cafter>>
       ELSE /\ Len(addClient) < SignalCap
            /\ cChannel' = [cChannel EXCEPT ![c] = n]
            /\ cLast' = [cLast EXCEPT ![c] = 0]
            /\ addClient' = Append(addClient, c)
            /\ hpc' = [hpc EXCEPT ![c] = "stream"]
            /\ cafter' = [cafter EXCEPT ![c] = \E r \in Restarts : rret[r] = "nil"]
            /\ UNCHANGED fault
    /\ UNCHANGED <<isStarted, channels, chansClosed, removeClient, closeWait, closeCalls>>
    /\ UNCHANGED <<chanVars, send, closed, loopVars, sendVars, callVars, sendHist, ratt, rold>>
    /\ UNCHANGED orderHist

\* The stream loop takes the next message of c.send and writes it out.
Recv(c) ==
    /\ fault = "none"
    /\ hpc[c] = "stream"
    /\ send[c] # <<>>
    /\ send' = [send EXCEPT ![c] = Tail(send[c])]
    /\ UNCHANGED <<serverVars, chanVars, cChannel, cLast, closed, hpc>>
    /\ UNCHANGED <<loopVars, sendVars, callVars, fault, histVars>>

\* The stream loop finds c.send closed and drained (msg, ok := <-c.send with
\* !ok) and returns.
RecvClosed(c) ==
    /\ fault = "none"
    /\ hpc[c] = "stream"
    /\ send[c] = <<>>
    /\ closed[c]
    /\ hpc' = [hpc EXCEPT ![c] = "defer"]
    /\ UNCHANGED <<serverVars, chanVars, cChannel, cLast, send, closed>>
    /\ UNCHANGED <<loopVars, sendVars, callVars, fault, histVars>>

\* The request's context is done (the client went away): the stream loop
\* returns.
Disconnect(c) ==
    /\ fault = "none"
    /\ hpc[c] = "stream"
    /\ hpc' = [hpc EXCEPT ![c] = "defer"]
    /\ UNCHANGED <<serverVars, chanVars, cChannel, cLast, send, closed>>
    /\ UNCHANGED <<loopVars, sendVars, callVars, fault, histVars>>

\* The deferred function of ServeHTTP: offer c on s.removeClient, give up
\* after one second when the buffer stays full.
NotifyRemove(c) ==
    /\ fault = "none"
    /\ hpc[c] = "defer"
    /\ IF chansClosed
       THEN /\ fault' = "send on closed channel"
            /\ UNCHANGED <<hpc, removeClient>>
       ELSE /\ removeClient' = IF Len(removeClient) < SignalCap
                               THEN Append(removeClient, c)
                               ELSE removeClient
            /\ hpc' = [hpc EXCEPT ![c] = "done"]
            /\ UNCHANGED fault
    /\ UNCHANGED <<isStarted, channels, chansClosed, addClient, closeWait, closeCalls>>
    /\ UNCHANGED <<chanVars, cChannel, cLast, send, closed>>
    /\ UNCHANGED <<loopVars, sendVars, callVars, histVars>>

\* The first select of ServeHTTP takes <-closeNotify: the request was
\* cancelled before the client was handed to the control loop.
CancelBeforeAdmit(c) ==
    /\ fault = "none"
    /\ hpc[c] = "new"
    /\ IF c = 1 THEN TRUE ELSE hpc[c - 1] # "new"
    /\ isStarted
    /\ hpc' = [hpc EXCEPT ![c] = "done"]
    /\ UNCHANGED <<serverVars, chanVars, cChannel, cLast, send, closed>>
    /\ UNCHANGED <<loopVars, sendVars, callVars, fault, histVars>>

\* ------------------------------------------------------------------ close
\* Thread t has run off the end of Server.close.  A control loop is in its
\* shutdown case: it closes the server's four Go channels and returns; closing
\* one twice panics, and so does a CloseChannel caller parked on closeChannel.
\* A Restart caller returns nil.
CloseDone(t) ==
    IF IsLoop(t)
    THEN /\ lpc' = [lpc EXCEPT ![t] = "exited"]
         /\ chansClosed' = TRUE
         /\ fault' = IF chansClosed THEN "close of closed channel"
                     ELSE IF \E n \in Names : closeWait[n] > 0 THEN "send on closed channel"
                     ELSE fault
         /\ kch' = [kch EXCEPT ![t] = 0]
         /\ kcl' = [kcl EXCEPT ![t] = 0]
         /\ kvis' = [kvis EXCEPT ![t] = {}]
         /\ UNCHANGED rret
    ELSE /\ lpc' = [lpc EXCEPT ![t] = "done"]
         /\ rret' = [rret EXCEPT ![t - NumStarts] = "nil"]
         /\ kch' = [kch EXCEPT ![t] = 0]
         /\ kcl' = [kcl EXCEPT ![t] = 0]
         /\ kvis' = [kvis EXCEPT ![t] = {}]
         /\ UNCHANGED <<chansClosed, fault>>

\* The range over s.channels of Server.close, run by thread t, the registry
\* being chs and vis the channels the range has produced: it produces a
\* registered channel it has not produced yet, or ends.
CloseRange(t, chs, vis) ==
    IF RegisteredIn(chs) \ vis # {}
    THEN \E o \in RegisteredIn(chs) \ vis :
            /\ lpc' = [lpc EXCEPT ![t] = "del"]
            /\ kch' = [kch EXCEPT ![t] = o]
            /\ kcl' = [kcl EXCEPT ![t] = 0]
            /\ kvis' = [kvis EXCEPT ![t] = vis \cup {o}]
            /\ UNCHANGED <<chansClosed, fault, rret>>
    ELSE CloseDone(t)

\* Thread t is done with one channel, the registry being chs: inside
\* Server.close the range over s.channels goes on; inside the control loop's
\* own removeChannel the loop goes back to its select.
CloseNext(t, chs) ==
    /\ UNCHANGED kmode
    /\ IF kmode[t] = "one"
       THEN /\ lpc' = [lpc EXCEPT ![t] = "select"]
            /\ kch' = [kch EXCEPT ![t] = 0]
            /\ kcl' = [kcl EXCEPT ![t] = 0]
            /\ UNCHANGED <<kvis, chansClosed, fault, rret>>
       ELSE CloseRange(t, chs, kvis[t])

\* Server.removeChannel(ch) up to the range of ch.Close: the name of ch is
\* deleted from s.channels under s.mu.Lock, whatever object it maps to, and
\* the range over ch.clients produces its first client, if any.
RemoveChannel(t) ==
    /\ fault = "none"
    /\ lpc[t] = "del"
    /\ SReaders = {}
    /\ LET chs == [channels EXCEPT ![chName[kch[t]]] = 0] IN
        /\ channels' = chs
        /\ IF chClients[kch[t]] # {}
           THEN /\ \E c \in chClients[kch[t]] : kcl' = [kcl EXCEPT ![t] = c]
                /\ lpc' = [lpc EXCEPT ![t] = "kick"]
                /\ UNCHANGED <<kch, kvis, kmode, chansClosed, fault, rret>>
           ELSE CloseNext(t, chs)
    /\ UNCHANGED <<isStarted, addClient, removeClient, closeWait, closeCalls>>
    /\ UNCHANGED <<chanVars, clientVars, sendVars, spc, sret, dpc, dret, histVars>>

\* removeClient with the delete from c.clients left out.
DetachInNone(cls, o, c) == cls

\* Channel.removeClient(client): the client leaves c.clients under c.mu.Lock
\* and its outbox is closed.  Closing a closed Go channel panics.
DetachIn(cls, o, c) == [cls EXCEPT ![o] = @ \ {c}]

\* One turn of the range of Channel.Close: removeClient on the client the
\* range produced, then the next client, or the end of Close.
KickClient(t) ==
    /\ fault = "none"
    /\ lpc[t] = "kick"
    /\ CReaders(kch[t]) = {}
    /\ IF closed[kcl[t]]
       THEN Panic("close of closed channel")
       ELSE /\ chClients' = DetachIn(chClients, kch[t], kcl[t])
            /\ closed' = [closed EXCEPT ![kcl[t]] = TRUE]
            /\ IF chClients'[kch[t]] # {}
               THEN /\ \E c \in chClients'[kch[t]] : kcl' = [kcl EXCEPT ![t] = c]
                    /\ UNCHANGED <<lpc, kch, kvis, kmode, chansClosed, fault, rret>>
               ELSE CloseNext(t, channels)
            /\ UNCHANGED <<isStarted, channels, addClient, removeClient, closeWait, closeCalls>>
            /\ UNCHANGED <<nChans, chName, chLast, cChannel, cLast, send, hpc>>
            /\ UNCHANGED <<sendVars, spc, sret, dpc, dret, histVars>>

\* ------------------------------------------------------------------ dispatch
\* case c := <-s.addClient, up to ch.addClient: the channel of the client's
\* name is looked up, and created and registered when there is none.
NewChannelId == nChans + 1

RecvAdd(l) ==
    /\ fault = "none"
    /\ lpc[l] = "select"
    /\ addClient # <<>>
    /\ LET c == Head(addClient)
           n == cChannel[c] IN
        /\ addClient' = Tail(addClient)
        /\ kcl' = [kcl EXCEPT ![l] = c]
        /\ lpc' = [lpc EXCEPT ![l] = "attach"]
        /\ IF channels[n] # 0
           THEN /\ kch' = [kch EXCEPT ![l] = channels[n]]
                /\ UNCHANGED <<channels, nChans, chName>>
           ELSE /\ SReaders = {}
                /\ nChans < MaxChans
                /\ nChans' = NewChannelId
                /\ chName' = [chName EXCEPT ![NewChannelId] = n]
                /\ channels' = [channels EXCEPT ![n] = NewChannelId]
                /\ kch' = [kch EXCEPT ![l] = NewChannelId]
    /\ UNCHANGED <<isStarted, chansClosed, removeClient, closeWait, closeCalls>>
    /\ UNCHANGED <<chClients, chLast, clientVars, kvis, kmode, sendVars, callVars, fault, histVars>>

\* Channel.addClient(client), under c.mu.Lock.
AttachIn(cls, o, c) == [cls EXCEPT ![o] = @ \cup {c}]

Attach(l) ==
    /\ fault = "none"
    /\ lpc[l] = "attach"
    /\ CReaders(kch[l]) = {}
    /\ chClients' = AttachIn(chClients, kch[l], kcl[l])
    /\ lpc' = [lpc EXCEPT ![l] = "select"]
    /\ kch' = [kch EXCEPT ![l] = 0]
    /\ kcl' = [kcl EXCEPT ![l] = 0]
    /\ UNCHANGED <<serverVars, nChans, chName, chLast, clientVars, kvis, kmode>>
    /\ UNCHANGED <<sendVars, callVars, fault, histVars>>

\* case c := <-s.removeClient, up to ch.removeClient: nothing happens when no
\* channel of the client's name is registered.
RecvRemove(l) ==
    /\ fault = "none"
    /\ lpc[l] = "select"
    /\ removeClient # <<>>
    /\ LET c == Head(removeClient) IN
        /\ removeClient' = Tail(removeClient)
        /\ IF channels[cChannel[c]] # 0
           THEN /\ lpc' = [lpc EXCEPT ![l] = "detach"]
                /\ kch' = [kch EXCEPT ![l] = channels[cChannel[c]]]
                /\ kcl' = [kcl EXCEPT ![l] = c]
           ELSE UNCHANGED <<lpc, kch, kcl>>
    /\ UNCHANGED <<isStarted, channels, chansClosed, addClient, closeWait, closeCalls>>
    /\ UNCHANGED <<chanVars, clientVars, kvis, kmode, sendVars, callVars, fault, histVars>>

\* ch.removeClient(c) of the removeClient case, and its ClientCount() == 0
\* test: an emptied channel goes on to removeChannel.
Detach(l) ==
    /\ fault = "none"
    /\ lpc[l] = "detach"
    /\ CReaders(kch[l]) = {}
    /\ IF closed[kcl[l]]
       THEN Panic("close of closed channel")
       ELSE /\ chClients' = DetachIn(chClients, kch[l], kcl[l])
            /\ closed' = [closed EXCEPT ![kcl[l]] = TRUE]
            /\ IF chClients'[kch[l]] = {}
               THEN /\ lpc' = [lpc EXCEPT ![l] = "del"]
                    /\ kmode' = [kmode EXCEPT ![l] = "one"]
                    /\ kcl' = [kcl EXCEPT ![l] = 0]
                    /\ UNCHANGED kch
               ELSE /\ lpc' = [lpc EXCEPT ![l] = "select"]
                    /\ kch' = [kch EXCEPT ![l] = 0]
                    /\ kcl' = [kcl EXCEPT ![l] = 0]
                    /\ UNCHANGED kmode
            /\ UNCHANGED <<serverVars, nChans, chName, chLast, cChannel, cLast, send, hpc>>
            /\ UNCHANGED <<kvis, sendVars, callVars, fault, histVars>>

\* Server.CloseChannel(name): the caller parks on the unbuffered
\* s.closeChannel; sending on it once it is closed panics.
CloseChannel(n) ==
    /\ fault = "none"
    /\ closeCalls < NumCloses
    /\ IF chansClosed
       THEN Panic("CloseChannel: send on closed channel")
       ELSE /\ closeWait' = [closeWait EXCEPT ![n] = @ + 1]
            /\ closeCalls' = closeCalls + 1
            /\ UNCHANGED <<isStarted, channels, chansClosed, addClient, removeClient>>
            /\ UNCHANGED <<chanVars, clientVars, loopVars, sendVars, callVars, fault, histVars>>

\* case channel := <-s.closeChannel: the caller returns, the loop looks the
\* channel up and goes on to removeChannel when it is registered.
RecvClose(l, n) ==
    /\ fault = "none"
    /\ lpc[l] = "select"
    /\ closeWait[n] > 0
    /\ closeWait' = [closeWait EXCEPT ![n] = @ - 1]
    /\ IF channels[n] # 0
       THEN /\ lpc' = [lpc EXCEPT ![l] = "del"]
            /\ kch' = [kch EXCEPT ![l] = channels[n]]
            /\ kmode' = [kmode EXCEPT ![l] = "one"]
       ELSE UNCHANGED <<lpc, kch, kmode>>
    /\ UNCHANGED <<isStarted, channels, chansClosed, addClient, removeClient, closeCalls>>
    /\ UNCHANGED <<chanVars, clientVars, kcl, kvis, sendVars, callVars, fault, histVars>>

\* ------------------------------------------------------------------ Start, Shutdown, Restart
\* Server.Start up to go s.dispatch(): the hasStarted test.
StartCheck(s) ==
    /\ fault = "none"
    /\ spc[s] = "idle"
    /\ IF s = 1 THEN TRUE ELSE spc[s - 1] # "idle"
    /\ IF HasStarted
       THEN /\ spc' = [spc EXCEPT ![s] = "done"]
            /\ sret' = [sret EXCEPT ![s] = "ErrServerStarted"]
       ELSE /\ spc' = [spc EXCEPT ![s] = "spawn"]
            /\ UNCHANGED sret
    /\ UNCHANGED <<serverVars, chanVars, clientVars, loopVars, sendVars, dpc, dret, rret>>
    /\ UNCHANGED <<fault, histVars>>

\* The rest of Server.Start: a control loop is spawned and isStarted is set.
StartSpawn(s) ==
    /\ fault = "none"
    /\ spc[s] = "spawn"
    /\ lpc' = [lpc EXCEPT ![s] = "select"]
    /\ isStarted' = TRUE
    /\ spc' = [spc EXCEPT ![s] = "done"]
    /\ sret' = [sret EXCEPT ![s] = "nil"]
    /\ UNCHANGED <<channels, chansClosed, addClient, removeClient, closeWait, closeCalls>>
    /\ UNCHANGED <<chanVars, clientVars, kch, kcl, kvis, kmode, sendVars, dpc, dret, rret>>
    /\ UNCHANGED <<fault, histVars>>

\* Server.Shutdown on a server that has not started.
ShutdownRefused(d) ==
    /\ fault = "none"
    /\ dpc[d] = "idle"
    /\ IF d = 1 THEN TRUE ELSE dpc[d - 1] # "idle"
    /\ ~HasStarted
    /\ dpc' = [dpc EXCEPT ![d] = "done"]
    /\ dret' = [dret EXCEPT ![d] = "ErrServerNotStarted"]
    /\ UNCHANGED <<serverVars, chanVars, clientVars, loopVars, sendVars, spc, sret, rret>>
    /\ UNCHANGED <<fault, histVars>>

\* Server.Shutdown on a started server: s.shutdown <- true panics when
\* s.shutdown is closed, and otherwise meets control loop l in its select.  The
\* loop enters its shutdown case and its Server.close begins to range over
\* s.channels; the caller returns nil.
Shutdown(d, l) ==
    /\ fault = "none"
    /\ dpc[d] = "idle"
    /\ IF d = 1 THEN TRUE ELSE dpc[d - 1] # "idle"
    /\ HasStarted
    /\ IF chansClosed
       THEN Panic("send on closed channel")
       ELSE /\ lpc[l] = "select"
            /\ dpc' = [dpc EXCEPT ![d] = "done"]
            /\ dret' = [dret EXCEPT ![d] = "nil"]
            /\ kmode' = [kmode EXCEPT ![l] = "all"]
            /\ CloseRange(l, channels, {})
            /\ UNCHANGED <<isStarted, channels, addClient, removeClient, closeWait, closeCalls>>
            /\ UNCHANGED <<chanVars, clientVars, sendVars, spc, sret, histVars>>

\* A control loop selects once the server's Go channels are closed and
\* drained: the receive yields a nil client, or the shutdown case closes the
\* closed channels again.
SelectOnClosed(l) ==
    /\ fault = "none"
    /\ lpc[l] = "select"
    /\ chansClosed
    /\ addClient = <<>>
    /\ Panic("nil client or close of closed channel")

\* Server.Restart: ErrServerNotStarted, or Server.close run by the caller.
Restart(r) ==
    /\ fault = "none"
    /\ lpc[RestartThread(r)] = "idle"
    /\ IF r = 1 THEN TRUE ELSE lpc[RestartThread(r - 1)] # "idle"
    /\ IF ~HasStarted
       THEN /\ lpc' = [lpc EXCEPT ![RestartThread(r)] = "done"]
            /\ rret' = [rret EXCEPT ![r] = "ErrServerNotStarted"]
            /\ UNCHANGED <<kch, kcl, kvis, kmode, chansClosed, fault, ratt, rold>>
       ELSE /\ kmode' = [kmode EXCEPT ![RestartThread(r)] = "all"]
            /\ ratt' = [ratt EXCEPT ![r] = UNION {chClients[o] : o \in Registered}]
            /\ rold' = [rold EXCEPT ![r] = Registered]
            /\ CloseRange(RestartThread(r), channels, {})
    /\ UNCHANGED <<isStarted, channels, addClient, removeClient, closeWait, closeCalls>>
    /\ UNCHANGED <<chanVars, clientVars, sendVars, spc, sret, dpc, dret, sendHist, cafter>>
    /\ UNCHANGED orderHist

\* ------------------------------------------------------------------ SendMessage
\* A fan-out stands at a client whose outbox is full.
AtFull == \E q \in Sends : ppc[q] = "fan" /\ Len(send[pcur[q]]) = OutboxCap

Active(p) == ppc[p] \in {"publish", "rlock", "fan"}

\* Targets with the range over s.channels left after its first channel.
TargetsFirstOnly(n) ==
    IF n = 0
    THEN IF Registered = {} THEN {} ELSE {CHOOSE o \in Registered : TRUE}
    ELSE IF channels[n] # 0 THEN {channels[n]} ELSE {}

\* Targets with the name not looked at: every call broadcasts.
TargetsIgnoringName(n) == Registered

\* The channels Server.SendMessage(name) publishes to: all the registered
\* ones for the empty name, else the one registered under the name, if any.
Targets(n) ==
    IF n = 0 THEN Registered
    ELSE IF channels[n] # 0 THEN {channels[n]} ELSE {}

\* Server.SendMessage(n, message p) up to its first ch.SendMessage.  For the
\* empty name s.mu.RLock is taken here and held until the call returns.
SendMessage(p, n) ==
    /\ fault = "none"
    /\ ppc[p] = "idle"
    /\ IF p = 1 THEN TRUE ELSE ppc[p - 1] # "idle"
    /\ pname' = [pname EXCEPT ![p] = n]
    /\ pstarted' = [pstarted EXCEPT ![p] = isStarted]
    /\ IF ~HasStarted
       THEN /\ ppc' = [ppc EXCEPT ![p] = "done"]
            /\ pret' = [pret EXCEPT ![p] = "ErrServerNotStarted"]
            /\ UNCHANGED <<pchs, patt, pfull>>
       ELSE /\ patt' = [patt EXCEPT ![p] = UNION {chClients[o] : o \in Registered}]
            /\ pfull' = [pfull EXCEPT ![p] = AtFull]
            /\ IF Targets(n) = {}
               THEN /\ ppc' = [ppc EXCEPT ![p] = "done"]
                    /\ pret' = [pret EXCEPT ![p] = "nil"]
                    /\ UNCHANGED pchs
               ELSE /\ ppc' = [ppc EXCEPT ![p] = "publish"]
                    /\ pchs' = [pchs EXCEPT ![p] = Targets(n)]
                    /\ UNCHANGED pret
    /\ UNCHANGED <<serverVars, chanVars, clientVars, loopVars, callVars, fault>>
    /\ UNCHANGED <<pch, pleft, pcur, timerOn, timerC, tstale, deliv, drops, dropWait, dropFree>>
    /\ UNCHANGED <<restartHist, orderHist>>

\* SetLast leaving lastEventID as it was.
SetLastNone(last, o, p) == last

\* c.lastEventID = message.id of Channel.SendMessage.
SetLast(last, o, p) == [last EXCEPT ![o] = p]

\* Channel.SendMessage up to c.mu.RLock, on the next channel of the call:
\* lastEventID is set under c.mu.Lock and the timer is created.
Publish(p) ==
    /\ fault = "none"
    /\ ppc[p] = "publish"
    /\ \E o \in pchs[p] :
        /\ CReaders(o) = {}
        /\ chLast' = SetLast(chLast, o, p)
        /\ pubs' = [pubs EXCEPT ![o] = IF chLast'[o] = p THEN Append(@, p) ELSE @]
        /\ pch' = [pch EXCEPT ![p] = o]
        /\ pchs' = [pchs EXCEPT ![p] = @ \ {o}]
    /\ timerOn' = [timerOn EXCEPT ![p] = TRUE]
    /\ timerC' = [timerC EXCEPT ![p] = FALSE]
    /\ tstale' = [tstale EXCEPT ![p] = FALSE]
    /\ ppc' = [ppc EXCEPT ![p] = "rlock"]
    /\ UNCHANGED <<serverVars, nChans, chName, chClients, clientVars, loopVars, callVars>>
    /\ UNCHANGED <<pname, pleft, pcur, pret, fault, sendHist, restartHist, got>>

\* Call p is through with its channel: RUnlock, the deferred timer.Stop, and
\* either the next channel of the range of Server.SendMessage or the return.
ChannelDone(p) ==
    /\ timerOn' = [timerOn EXCEPT ![p] = FALSE]
    /\ timerC' = [timerC EXCEPT ![p] = FALSE]
    /\ tstale' = [tstale EXCEPT ![p] = FALSE]
    /\ pch' = [pch EXCEPT ![p] = 0]
    /\ pleft' = [pleft EXCEPT ![p] = {}]
    /\ pcur' = [pcur EXCEPT ![p] = 0]
    /\ IF pchs[p] = {}
       THEN /\ ppc' = [ppc EXCEPT ![p] = "done"]
            /\ pret' = [pret EXCEPT ![p] = "nil"]
       ELSE /\ ppc' = [ppc EXCEPT ![p] = "publish"]
            /\ UNCHANGED pret

\* The history of full outboxes, after a step that moved a fan-out or filled
\* an outbox.
NoteFull(p) ==
    pfull' = [q \in Sends |-> pfull[q] \/ ((q = p \/ Active(q)) /\ AtFull')]

\* c.mu.RLock and the first turn of the range over c.clients.
ReadLock(p) ==
    /\ fault = "none"
    /\ ppc[p] = "rlock"
    /\ IF chClients[pch[p]] = {}
       THEN /\ ChannelDone(p)
            /\ UNCHANGED pfull
       ELSE /\ pleft' = [pleft EXCEPT ![p] = chClients[pch[p]]]
            /\ \E c \in chClients[pch[p]] : pcur' = [pcur EXCEPT ![p] = c]
            /\ ppc' = [ppc EXCEPT ![p] = "fan"]
            /\ tstale' = [tstale EXCEPT ![p] = timerC[p]]
            /\ UNCHANGED <<pch, pret, timerOn, timerC, send>>
            /\ NoteFull(p)
    /\ UNCHANGED <<serverVars, chanVars, clientVars, loopVars, callVars, fault>>
    /\ UNCHANGED <<pname, pchs, deliv, drops, dropWait, dropFree, patt, pstarted, restartHist>>
    /\ UNCHANGED orderHist

\* After the select on the current client: timer.Reset, timer.C holding tc,
\* and the next turn of the range over c.clients, or its end.
NextClient(p, tc) ==
    IF pleft[p] \ {pcur[p]} = {}
    THEN ChannelDone(p)
    ELSE /\ pleft' = [pleft EXCEPT ![p] = @ \ {pcur[p]}]
         /\ \E c \in pleft[p] \ {pcur[p]} : pcur' = [pcur EXCEPT ![p] = c]
         /\ timerOn' = [timerOn EXCEPT ![p] = TRUE]
         /\ timerC' = [timerC EXCEPT ![p] = tc]
         /\ tstale' = [tstale EXCEPT ![p] = tc]
         /\ UNCHANGED <<ppc, pch, pret>>

\* The select of Channel.SendMessage takes case c.send <- message.
Enqueue(p) ==
    /\ fault = "none"
    /\ ppc[p] = "fan"
    /\ IF closed[pcur[p]]
       THEN Panic("send on closed channel")
       ELSE /\ Len(send[pcur[p]]) < OutboxCap
            /\ send' = [send EXCEPT ![pcur[p]] = Append(@, p)]
            /\ deliv' = [deliv EXCEPT ![p][pcur[p]] = @ + 1]
            /\ NextClient(p, timerC[p])
            /\ NoteFull(p)
            /\ UNCHANGED <<serverVars, chanVars, cChannel, cLast, closed, hpc, loopVars>>
            /\ UNCHANGED <<callVars, fault, pname, pchs, drops, dropWait, dropFree, patt, pstarted>>
            /\ got' = [got EXCEPT ![pcur[p]] = Append(@, p)]
            /\ UNCHANGED <<restartHist, pubs>>

\* The select of Channel.SendMessage takes case <-timer.C: the message is
\* not sent to the current client.
Timeout(p) ==
    /\ fault = "none"
    /\ ppc[p] = "fan"
    /\ timerC[p]
    /\ drops' = [drops EXCEPT ![p] = @ \cup {pcur[p]}]
    /\ dropWait' = [dropWait EXCEPT ![p] =
                        IF ~tstale[p] /\ Len(send[pcur[p]]) = OutboxCap
                        THEN @ \cup {pcur[p]} ELSE @]
    /\ dropFree' = [dropFree EXCEPT ![p] =
                        IF tstale[p] /\ Len(send[pcur[p]]) < OutboxCap
                        THEN @ \cup {pcur[p]} ELSE @]
    /\ NextClient(p, FALSE)
    /\ UNCHANGED send
    /\ NoteFull(p)
    /\ UNCHANGED <<serverVars, chanVars, clientVars, loopVars, callVars, fault>>
    /\ UNCHANGED <<pname, pchs, deliv, patt, pstarted, restartHist, orderHist>>

\* A goroutine waits for c.mu.Lock of channel o.
WriterWaits(o) ==
    \/ \E t \in Threads : lpc[t] \in {"attach", "detach", "kick"} /\ kch[t] = o
    \/ \E q \in Sends : ppc[q] = "publish" /\ o \in pchs[q]

\* Call p has had 200 ms to wait in: parked in its select on a full outbox,
\* or kept from c.mu.RLock by a waiting writer, itself kept out by a fan-out
\* parked on a full outbox.
Waited(p) ==
    IF ppc[p] = "fan"
    THEN Len(send[pcur[p]]) = OutboxCap
    ELSE /\ ppc[p] = "rlock"
         /\ WriterWaits(pch[p])
         /\ \E q \in CReaders(pch[p]) : Len(send[pcur[q]]) = OutboxCap /\ ~timerC[q]

\* The timer of call p fires: a value is put in timer.C.
Tick(p) ==
    /\ fault = "none"
    /\ timerOn[p]
    /\ ~timerC[p]
    /\ Waited(p)
    /\ timerC' = [timerC EXCEPT ![p] = TRUE]
    /\ timerOn' = [timerOn EXCEPT ![p] = FALSE]
    /\ UNCHANGED <<serverVars, chanVars, clientVars, loopVars, callVars, fault>>
    /\ UNCHANGED <<ppc, pname, pchs, pch, pleft, pcur, pret, tstale, histVars>>

\* ------------------------------------------------------------------ specifications
\* The whole program: every goroutine, every public operation.
Next ==
    \/ \E c \in Clients, n \in Names : ServeHTTP(c, n)
    \/ \E c \in Clients : CancelBeforeAdmit(c)
    \/ \E c \in Clients : Recv(c)
    \/ \E c \in Clients : RecvClosed(c)
    \/ \E c \in Clients : Disconnect(c)
    \/ \E c \in Clients : NotifyRemove(c)
    \/ \E l \in Loops : RecvAdd(l)
    \/ \E l \in Loops : Attach(l)
    \/ \E l \in Loops : RecvRemove(l)
    \/ \E l \in Loops : Detach(l)
    \/ \E l \in Loops, n \in Names : RecvClose(l, n)
    \/ \E l \in Loops : SelectOnClosed(l)
    \/ \E t \in Threads : RemoveChannel(t)
    \/ \E t \in Threads : KickClient(t)
    \/ \E n \in Names : CloseChannel(n)
    \/ \E s \in Starts : StartCheck(s)
    \/ \E s \in Starts : StartSpawn(s)
    \/ \E d \in Shutdowns : ShutdownRefused(d)
    \/ \E d \in Shutdowns, l \in Loops : Shutdown(d, l)
    \/ \E r \in Restarts : Restart(r)
    \/ \E p \in Sends, n \in 0..NumNames : SendMessage(p, n)
    \/ \E p \in Sends : Publish(p)
    \/ \E p \in Sends : ReadLock(p)
    \/ \E p \in Sends : Enqueue(p)
    \/ \E p \in Sends : Timeout(p)
    \/ \E p \in Sends : Tick(p)

Spec == Init /\ [][Next]_vars

\* The slices of Spec the properties are checked under.  A slice keeps the
\* program and lets the environment do less: fewer requests and calls, or
\* none of a kind.  InitStarted is NewServer without DontStartServer.
InitStarted == Init /\ isStarted

\* Subscribers that stay, on two channels, and publishers.
NextFan ==
    \/ \E c \in 1..FanClients, n \in Names : ServeHTTP(c, n)
    \/ \E c \in Clients : Recv(c)
    \/ \E l \in Loops : RecvAdd(l)
    \/ \E l \in Loops : Attach(l)
    \/ \E p \in Sends, n \in 0..NumNames : SendMessage(p, n)
    \/ \E p \in Sends : Publish(p)
    \/ \E p \in Sends : ReadLock(p)
    \/ \E p \in Sends : Enqueue(p)
    \/ \E p \in Sends : Timeout(p)
    \/ \E p \in Sends : Tick(p)

SpecFan == InitStarted /\ [][NextFan]_vars

\* Subscribers that stay, more of them on fewer channels, and publishers.
NextSlow ==
    \/ \E c \in Clients, n \in 1..SlowNames : ServeHTTP(c, n)
    \/ \E c \in Clients : Recv(c)
    \/ \E l \in Loops : RecvAdd(l)
    \/ \E l \in Loops : Attach(l)
    \/ \E p \in Sends, n \in 0..SlowNames : SendMessage(p, n)
    \/ \E p \in Sends : Publish(p)
    \/ \E p \in Sends : ReadLock(p)
    \/ \E p \in Sends : Enqueue(p)
    \/ \E p \in Sends : Timeout(p)
    \/ \E p \in Sends : Tick(p)

SpecSlow == InitStarted /\ [][NextSlow]_vars

\* The life cycle: Start, Shutdown and Restart calls on a server built with
\* or without DontStartServer, two publish calls, and one subscriber, on one
\* channel, that stays until the server closes its outbox.
NextLife ==
    \/ \E c \in 1..LifeClients, n \in 1..LifeNames : ServeHTTP(c, n)
    \/ \E c \in Clients : Recv(c)
    \/ \E c \in Clients : RecvClosed(c)
    \/ \E c \in Clients : NotifyRemove(c)
    \/ \E l \in Loops : RecvAdd(l)
    \/ \E l \in Loops : Attach(l)
    \/ \E l \in Loops : RecvRemove(l)
    \/ \E l \in Loops : SelectOnClosed(l)
    \/ \E t \in Threads : RemoveChannel(t)
    \/ \E t \in Threads : KickClient(t)
    \/ \E s \in Starts : StartCheck(s)
    \/ \E s \in Starts : StartSpawn(s)
    \/ \E d \in Shutdowns : ShutdownRefused(d)
    \/ \E d \in Shutdowns, l \in Loops : Shutdown(d, l)
    \/ \E r \in Restarts : Restart(r)
    \/ \E p \in 1..LifeSends, n \in 0..LifeNames : SendMessage(p, n)
    \/ \E p \in Sends : Publish(p)
    \/ \E p \in Sends : ReadLock(p)
    \/ \E p \in Sends : Enqueue(p)

SpecLife == Init /\ [][NextLife]_vars

\* Subscribers that come and go on a started server, with CloseChannel and
\* one Shutdown, and one publisher.
NextClose ==
    \/ \E c \in 1..FanClients, n \in Names : ServeHTTP(c, n)
    \/ \E c \in Clients : Recv(c)
    \/ \E c \in Clients : RecvClosed(c)
    \/ \E c \in Clients : Disconnect(c)
    \/ \E c \in Clients : NotifyRemove(c)
    \/ \E l \in Loops : RecvAdd(l)
    \/ \E l \in Loops : Attach(l)
    \/ \E l \in Loops : RecvRemove(l)
    \/ \E l \in Loops : Detach(l)
    \/ \E l \in Loops, n \in Names : RecvClose(l, n)
    \/ \E t \in Threads : RemoveChannel(t)
    \/ \E t \in Threads : KickClient(t)
    \/ \E n \in Names : CloseChannel(n)
    \/ \E l \in Loops : Shutdown(1, l)
    \/ \E p \in 1..CloseSends, n \in 0..NumNames : SendMessage(p, n)
    \/ \E p \in Sends : Publish(p)
    \/ \E p \in Sends : ReadLock(p)
    \/ \E p \in Sends : Enqueue(p)

SpecClose == InitStarted /\ [][NextClose]_vars

\* Subscribers that come and go on a started server, with Restart, and one
\* publisher.
NextRestart ==
    \/ \E c \in 1..FanClients, n \in Names : ServeHTTP(c, n)
    \/ \E c \in Clients : Recv(c)
    \/ \E c \in Clients : RecvClosed(c)
    \/ \E c \in Clients : Disconnect(c)
    \/ \E c \in Clients : NotifyRemove(c)
    \/ \E l \in Loops : RecvAdd(l)
    \/ \E l \in Loops : Attach(l)
    \/ \E l \in Loops : RecvRemove(l)
    \/ \E l \in Loops : Detach(l)
    \/ \E t \in Threads : RemoveChannel(t)
    \/ \E t \in Threads : KickClient(t)
    \/ \E r \in Restarts : Restart(r)
    \/ \E p \in 1..CloseSends, n \in 0..NumNames : SendMessage(p, n)
    \/ \E p \in Sends : Publish(p)
    \/ \E p \in Sends : ReadLock(p)
    \/ \E p \in Sends : Enqueue(p)

SpecRestart == InitStarted /\ [][NextRestart]_vars

\* One Shutdown on a started server with subscribers.  The goroutines of the
\* program are scheduled fairly: a control loop or a handler that can take a
\* step takes one.  Nothing is asked of the environment: a subscriber may
\* stay connected for ever, and Shutdown need not be called.
LoopStep(l) ==
    \/ RecvAdd(l) \/ Attach(l) \/ RecvRemove(l) \/ Detach(l)
    \/ RemoveChannel(l) \/ KickClient(l)

HandlerStep(c) == Recv(c) \/ RecvClosed(c) \/ NotifyRemove(c)

NextStop ==
    \/ \E c \in 1..FanClients, n \in Names : ServeHTTP(c, n)
    \/ \E c \in Clients : Disconnect(c)
    \/ \E c \in Clients : HandlerStep(c)
    \/ \E l \in Loops : LoopStep(l)
    \/ \E l \in Loops : Shutdown(1, l)
    \/ \E p \in 1..CloseSends, n \in 0..NumNames : SendMessage(p, n)
    \/ \E p \in Sends : Publish(p)
    \/ \E p \in Sends : ReadLock(p)
    \/ \E p \in Sends : Enqueue(p)

FairStop ==
    /\ \A l \in Loops : WF_vars(LoopStep(l))
    /\ \A c \in Clients : WF_vars(HandlerStep(c))
    /\ \A p \in Sends : WF_vars(Publish(p) \/ ReadLock(p) \/ Enqueue(p))

SpecStop == InitStarted /\ [][NextStop]_vars /\ FairStop

\* CloseChannel calls on a server in every state of its life: built started
\* or not, one Start, one Shutdown, and subscribers that stay until the
\* server closes their outboxes.
NextCall ==
    \/ \E c \in 1..FanClients, n \in Names : ServeHTTP(c, n)
    \/ \E c \in Clients : RecvClosed(c)
    \/ \E c \in Clients : NotifyRemove(c)
    \/ \E l \in Loops : RecvAdd(l)
    \/ \E l \in Loops : Attach(l)
    \/ \E l \in Loops : RecvRemove(l)
    \/ \E l \in Loops : Detach(l)
    \/ \E l \in Loops, n \in Names : RecvClose(l, n)
    \/ \E t \in Threads : RemoveChannel(t)
    \/ \E t \in Threads : KickClient(t)
    \/ \E n \in Names : CloseChannel(n)
    \/ StartCheck(1)
    \/ StartSpawn(1)
    \/ \E l \in Loops : Shutdown(1, l)

SpecCall == Init /\ [][NextCall]_vars

\* ------------------------------------------------------------------ properties
\* C1: a SendMessage("") made on a started server, during which no fan-out
\* ever stood at a full outbox, returns nil having enqueued its message at
\* most once into any outbox and exactly once into the outbox of every client
\* that was attached to a registered channel when it began (and has not been
\* detached since).
C1_BroadcastAllOnce ==
    \A p \in Sends :
        (ppc[p] = "done" /\ pname[p] = 0 /\ pstarted[p] /\ ~pfull[p])
        => /\ pret[p] = "nil"
           /\ \A c \in Clients : deliv[p][c] <= 1
           /\ \A c \in patt[p] : closed[c] \/ deliv[p][c] = 1

\* A finished broadcast to all that reached clients of two channels.
C1_Witness ==
    \E p \in Sends :
        /\ ppc[p] = "done" /\ pname[p] = 0 /\ pstarted[p] /\ ~pfull[p]
        /\ pret[p] = "nil"
        /\ \E c, d \in patt[p] :
            cChannel[c] # cChannel[d] /\ deliv[p][c] = 1 /\ deliv[p][d] = 1

\* C2: when a finished call gave up on a client whose outbox was full for the
\* timer's whole run, that client did not get the message, the call returned
\* nil, and no client whose outbox had free space was passed over.
C2_OthersStillServed ==
    \A p \in Sends :
        (ppc[p] = "done" /\ dropWait[p] # {})
        => /\ pret[p] = "nil"
           /\ \A c \in dropWait[p] : deliv[p][c] = 0
           /\ dropFree[p] = {}

\* C3: Channel.SendMessage never gives up on a client whose outbox has free
\* space on account of a timer value that was in timer.C before the fan-out
\* reached that client.
C3_DropOnlyWhenFull == \A p \in Sends : dropFree[p] = {}

\* C4: on a server that has not started, SendMessage, Restart and Shutdown
\* return ErrServerNotStarted in one step that leaves the server, the channels
\* and the clients (the started flag among them) as they were; Start then
\* goes on to spawn the control loop, sets the flag and returns nil; and a
\* SendMessage that finds the server started returns nil.
C4_Inv ==
    \A p \in Sends : (ppc[p] = "done" /\ pstarted[p]) => pret[p] = "nil"

C4_Step ==
    /\ \A p \in Sends :
        (ppc[p] = "idle" /\ ppc'[p] # "idle" /\ ~isStarted)
        => /\ ppc'[p] = "done" /\ pret'[p] = "ErrServerNotStarted"
           /\ UNCHANGED <<serverVars, chanVars, clientVars>>
    /\ \A r \in Restarts :
        (lpc[RestartThread(r)] = "idle" /\ lpc'[RestartThread(r)] # "idle" /\ ~isStarted)
        => /\ lpc'[RestartThread(r)] = "done" /\ rret'[r] = "ErrServerNotStarted"
           /\ UNCHANGED <<serverVars, chanVars, clientVars>>
    /\ \A d \in Shutdowns :
        (dpc[d] = "idle" /\ dpc'[d] # "idle" /\ ~isStarted)
        => /\ dpc'[d] = "done" /\ dret'[d] = "ErrServerNotStarted"
           /\ UNCHANGED <<serverVars, chanVars, clientVars, lpc>>
    /\ \A s \in Starts :
        /\ (spc[s] = "idle" /\ spc'[s] # "idle" /\ ~isStarted) => spc'[s] = "spawn"
        /\ (spc[s] = "spawn" /\ spc'[s] # "spawn")
           => spc'[s] = "done" /\ sret'[s] = "nil" /\ isStarted' /\ lpc'[s] = "select"

C4_NotStarted == []C4_Inv /\ [][C4_Step]_vars

\* One SendMessage, the Restart and one Shutdown were refused, Start returned
\* nil, and the next SendMessage found the server started and returned nil.
C4_Witness ==
    /\ pret[1] = "ErrServerNotStarted" /\ ~pstarted[1]
    /\ rret[1] = "ErrServerNotStarted"
    /\ dret[1] = "ErrServerNotStarted"
    /\ sret[1] = "nil" /\ isStarted
    /\ ppc[2] = "done" /\ pstarted[2] /\ pret[2] = "nil"

\* C5: once a Shutdown has returned nil and the control loop that took it has
\* exited, every SendMessage, Restart and Shutdown call that begins returns
\* ErrServerNotStarted and enqueues nothing.
ShutdownCompleted ==
    /\ \E d \in Shutdowns : dret[d] = "nil"
    /\ \E l \in Loops : lpc[l] = "exited"

C5_Step ==
    ShutdownCompleted =>
        /\ \A p \in Sends :
            (ppc[p] = "idle" /\ ppc'[p] # "idle")
            => ppc'[p] = "done" /\ pret'[p] = "ErrServerNotStarted"
        /\ \A r \in Restarts :
            (lpc[RestartThread(r)] = "idle" /\ lpc'[RestartThread(r)] # "idle")
            => rret'[r] = "ErrServerNotStarted"
        /\ \A d \in Shutdowns :
            (dpc[d] = "idle" /\ dpc'[d] # "idle") => dret'[d] = "ErrServerNotStarted"
        /\ UNCHANGED deliv

C5_StoppedRefuses == [][C5_Step]_vars

\* C6: at no time do two control loops run for the server.
Running == {l \in Loops : lpc[l] \notin {"off", "exited"}}

C6_OneLoop == Cardinality(Running) <= 1

\* C7: once a Restart has returned nil, every client that was attached when
\* it began has its outbox closed, no channel registered when it began is
\* registered, the server is started and a control loop runs, no goroutine
\* has panicked, every attached client whose request began after the return
\* is a member of the channel registered under its name, and such a client
\* gets every message published to its name or to all while it is attached.
Attached(c) == \E o \in ChanIds : c \in chClients[o]

C7_AfterRestart ==
    \A r \in Restarts :
        rret[r] = "nil" =>
            /\ \A c \in ratt[r] : closed[c]
            /\ rold[r] \cap Registered = {}
            /\ isStarted /\ Running # {} /\ fault = "none"
            /\ \A c \in Clients :
                (cafter[c] /\ Attached(c))
                => \E o \in Registered : chName[o] = cChannel[c] /\ c \in chClients[o]
            /\ \A c \in Clients, p \in Sends :
                (/\ cafter[c] /\ ~closed[c]
                 /\ ppc[p] = "done" /\ pstarted[p]
                 /\ c \in patt[p] /\ pname[p] \in {0, cChannel[c]})
                => deliv[p][c] = 1

\* C8: after Shutdown has returned nil, the program comes to a state where no
\* channel is registered and every client whose handler is in its stream loop
\* has its outbox closed (or the program has died of a panic).
C8_AllClosed ==
    (\E d \in Shutdowns : dret[d] = "nil")
        ~> (\/ fault # "none"
            \/ /\ Registered = {}
               /\ \A c \in Clients : hpc[c] = "stream" => closed[c])

\* C9: the step of the removeClient case that detaches a client c from the
\* channel T it is a member of takes c, and nothing else, out of T's clients,
\* closes c's outbox, and leaves every other channel's clients, every other
\* outbox and the registry as they were; when T is left empty the loop goes
\* on to removeChannel(T), whose step leaves no channel registered under T's
\* name, and otherwise it goes back to its select with T registered as before.
C9_Detach ==
    \A l \in Loops :
        (lpc[l] = "detach" /\ lpc'[l] # "detach" /\ kcl[l] \in chClients[kch[l]])
        => /\ chClients'[kch[l]] = chClients[kch[l]] \ {kcl[l]}
           /\ closed'[kcl[l]]
           /\ \A o \in ChanIds \ {kch[l]} : chClients'[o] = chClients[o]
           /\ \A d \in Clients \ {kcl[l]} : closed'[d] = closed[d] /\ send'[d] = send[d]
           /\ channels' = channels
           /\ IF chClients'[kch[l]] = {}
              THEN lpc'[l] = "del" /\ kch'[l] = kch[l] /\ kmode'[l] = "one"
              ELSE lpc'[l] = "select"

C9_Delete ==
    \A l \in Loops :
        (lpc[l] = "del" /\ kmode[l] = "one" /\ lpc'[l] # "del")
        => /\ channels'[chName[kch[l]]] = 0
           /\ kch[l] \notin RegisteredIn(channels')

C9_Removal == [][C9_Detach /\ C9_Delete]_vars

\* Two clients of one channel were detached by the removeClient case, one
\* after the other, no Shutdown or CloseChannel having been called: the first
\* left the channel registered, the second left it empty and the control loop
\* is about to remove it.
C9_Witness ==
    /\ closeCalls = 0
    /\ \A d \in Shutdowns : dret[d] = "none"
    /\ \E l \in Loops :
        /\ lpc[l] = "del" /\ kmode[l] = "one" /\ chClients[kch[l]] = {}
        /\ \E c, d \in Clients :
            /\ c # d /\ closed[c] /\ closed[d]
            /\ cChannel[c] = chName[kch[l]] /\ cChannel[d] = chName[kch[l]]

\* C10: a SendMessage with a non-empty name enqueues only into outboxes of
\* clients of that name and sets lastEventID only on a channel of that name;
\* when no channel is registered under the name, the call returns nil at once
\* and leaves the server, the channels and the clients as they were.
C10_NamedInv ==
    \A p \in Sends :
        pname[p] # 0 =>
            /\ \A c \in Clients : deliv[p][c] > 0 => cChannel[c] = pname[p]
            /\ \A o \in ChanIds : chLast[o] = p => chName[o] = pname[p]

C10_NamedStep ==
    \A p \in Sends :
        (/\ ppc[p] = "idle" /\ ppc'[p] # "idle"
         /\ isStarted /\ pname'[p] # 0 /\ channels[pname'[p]] = 0)
        => /\ ppc'[p] = "done" /\ pret'[p] = "nil"
           /\ UNCHANGED <<serverVars, chanVars, clientVars>>

C10_NamedOnly == []C10_NamedInv /\ [][C10_NamedStep]_vars

\* A named SendMessage delivered to a client of its channel while a client
\* attached to the other channel got nothing.
C10_Witness ==
    \E p \in Sends :
        /\ ppc[p] = "done" /\ pname[p] # 0 /\ pret[p] = "nil"
        /\ \E c, d \in Clients :
            /\ deliv[p][c] = 1
            /\ cChannel[d] \notin {0, pname[p]}
            /\ \E o \in Registered : d \in chClients[o]
            /\ deliv[p][d] = 0

\* C11: a ServeHTTP that begins while the server is not running (it has not
\* started, or a Shutdown has returned and the control loop has exited) ends
\* in that step with status 500, leaving the server, the channels and the
\* clients as they were, and does not panic.
NotRunning == ~isStarted \/ ShutdownCompleted

C11_Step ==
    NotRunning =>
        /\ \A c \in Clients :
            (hpc[c] = "new" /\ hpc'[c] # "new")
            => /\ hpc'[c] = "err500"
               /\ UNCHANGED <<serverVars, chanVars, cChannel, cLast, send, closed>>
        /\ fault' # "ServeHTTP: send on closed channel"

C11_Refuses500 == [][C11_Step]_vars

\* C12: any two messages enqueued into a client's outbox were enqueued in the
\* order in which the lastEventID of the client's channel was set to them.
Pos(s, x) == CHOOSE i \in 1..Len(s) : s[i] = x

InSeq(s, x) == \E i \in 1..Len(s) : s[i] = x

C12_PublishOrder ==
    \A c \in Clients, o \in ChanIds :
        \A i, j \in 1..Len(got[c]) :
            (/\ i < j
             /\ chName[o] = cChannel[c]
             /\ InSeq(pubs[o], got[c][i]) /\ InSeq(pubs[o], got[c][j]))
            => Pos(pubs[o], got[c][i]) < Pos(pubs[o], got[c][j])

\* C13: no CloseChannel call panics, none is left parked on s.closeChannel
\* without a running control loop to take it, and a call made while the
\* server is not running changes nothing but the count of calls made.
C13_Inv ==
    /\ fault # "CloseChannel: send on closed channel"
    /\ \A n \in Names : closeWait[n] > 0 => (isStarted /\ Running # {})

C13_Step ==
    (NotRunning /\ closeCalls' # closeCalls)
    => UNCHANGED <<isStarted, channels, chansClosed, addClient, removeClient, closeWait,
                   chanVars, clientVars, loopVars, fault>>

C13_FireAndForget == []C13_Inv /\ [][C13_Step]_vars

\* C14: no goroutine ever stands in Channel.removeClient with a client whose
\* outbox is already closed (its close would be the second), and an outbox is
\* closed only by a step of Channel.removeClient: of the removeClient case of
\* the control loop, or of Channel.Close.
C14_Inv ==
    \A t \in Threads : lpc[t] \in {"detach", "kick"} => ~closed[kcl[t]]

C14_Step ==
    \A c \in Clients :
        (~closed[c] /\ closed'[c])
        => \E t \in Threads :
            /\ lpc[t] \in {"detach", "kick"} /\ kcl[t] = c
            /\ c \notin chClients'[kch[t]]

C14_ClosedOnce == []C14_Inv /\ [][C14_Step]_vars

\* C15: every step that changes the channel map or a channel's member set is
\* a step of a control loop: it is no step of a goroutine that called Restart.
C15_Step ==
    (channels' # channels \/ chClients' # chClients)
    => \A r \in Restarts :
        /\ lpc'[RestartThread(r)] = lpc[RestartThread(r)]
        /\ kcl'[RestartThread(r)] = kcl[RestartThread(r)]

C15_LoopOnly == [][C15_Step]_vars

\* C16: the closeChannel case of the control loop.  For a name with no
\* registered channel it changes no channel and no client.  For a registered
\* one it goes on to removeChannel, whose step deletes that name, and only
\* it, from the registry, and whose Channel.Close detaches one member at a
\* time, closing its outbox and no other, never meeting a member whose outbox
\* is closed already; when the loop is back at its select the channel has no
\* member and is not registered.
C16_Inv ==
    \A l \in Loops : (lpc[l] = "kick" /\ kmode[l] = "one") => ~closed[kcl[l]]

C16_Step ==
    \A l \in Loops :
        /\ \A n \in Names :
            (lpc[l] = "select" /\ closeWait'[n] < closeWait[n])
            => IF channels[n] = 0
               THEN UNCHANGED <<channels, chanVars, clientVars, lpc>>
               ELSE /\ lpc'[l] = "del" /\ kch'[l] = channels[n] /\ kmode'[l] = "one"
                    /\ UNCHANGED <<channels, chanVars, clientVars>>
        /\ (lpc[l] = "del" /\ kmode[l] = "one" /\ lpc'[l] # "del")
           => /\ channels' = [channels EXCEPT ![chName[kch[l]]] = 0]
              /\ UNCHANGED <<chanVars, clientVars>>
        /\ (lpc[l] = "kick" /\ kmode[l] = "one" /\ <<lpc[l], kcl[l]>> # <<lpc'[l], kcl'[l]>>)
           => /\ chClients' = [chClients EXCEPT ![kch[l]] = @ \ {kcl[l]}]
              /\ closed' = [closed EXCEPT ![kcl[l]] = TRUE]
              /\ UNCHANGED <<channels, send>>
        /\ (lpc[l] \in {"del", "kick"} /\ kmode[l] = "one" /\ lpc'[l] = "select")
           => /\ chClients'[kch[l]] = {}
              /\ kch[l] \notin RegisteredIn(channels')

C16_CloseChannelCase == []C16_Inv /\ [][C16_Step]_vars

\* C17: a client into whose outbox messages have been enqueued has the last
\* of them as its lastEventID; a step of a fan-out that enqueues nothing
\* leaves every client's lastEventID as it was.
C17_Inv ==
    \A c \in Clients : got[c] # <<>> => cLast[c] = got[c][Len(got[c])]

C17_Step == (got' = got) => (cLast' = cLast \/ hpc' # hpc)

C17_ClientLastEventID == []C17_Inv /\ [][C17_Step]_vars

\* C18: every message enqueued into a client's outbox, and every message a
\* fan-out is about to enqueue, is one the lastEventID of a channel of the
\* client's name was set to at an earlier step; and the step of
\* Channel.SendMessage that precedes the fan-out leaves the channel's
\* lastEventID equal to the message, whether or not the channel has clients.
C18_Inv ==
    /\ \A c \in Clients : \A i \in 1..Len(got[c]) :
        \E o \in ChanIds : chName[o] = cChannel[c] /\ InSeq(pubs[o], got[c][i])
    /\ \A p \in Sends : ppc[p] \in {"rlock", "fan"} => InSeq(pubs[pch[p]], p)

C18_Step ==
    \A p \in Sends :
        (ppc[p] = "publish" /\ ppc'[p] = "rlock") => chLast'[pch'[p]] = p

C18_LastBeforeFanOut == []C18_Inv /\ [][C18_Step]_vars

\* One call has returned after setting the lastEventID of a channel that had
\* no client and enqueuing nothing, and a client holds a message in its
\* outbox history.
C18_Witness ==
    /\ \E p \in Sends, o \in ChanIds :
        /\ ppc[p] = "done" /\ InSeq(pubs[o], p)
        /\ drops[p] = {} /\ \A c \in Clients : deliv[p][c] = 0
    /\ \E c \in Clients : got[c] # <<>>

\* C19: every client with an open outbox that is a member of a channel is a
\* member of the channel registered under its name: a channel that holds an
\* open client is registered in s.channels under the client's name, unless
\* some thread is in the range of that channel's Close at this moment.
C19_OpenInRegistered ==
    \A o \in ChanIds : \A c \in chClients[o] :
        ~closed[c] =>
            \/ chName[o] = cChannel[c] /\ channels[chName[o]] = o
            \/ \E t \in Threads : lpc[t] = "kick" /\ kch[t] = o

\* C20: a call of Channel.SendMessage that is in its range over c.clients
\* never has a client whose outbox is closed as the one its select is about
\* to enqueue into.
C20_NoSendOnClosed ==
    \A p \in Sends : ppc[p] = "fan" => ~closed[pcur[p]]

\* C21: when a handler runs its deferred removal after the control loop has
\* run its shutdown case and exited, the handler returns, no fault is raised,
\* and s.channels, the channels' clients and s.removeClient stay as they were.
C21_Step ==
    \A c \in Clients :
        (chansClosed /\ NotifyRemove(c)) =>
            /\ hpc'[c] = "done"
            /\ fault' = "none"
            /\ channels' = channels
            /\ chClients' = chClients
            /\ removeClient' = removeClient

C21_LateRemovalHarmless == [][C21_Step]_vars

=============================================================================
